---------------------------- MODULE Spec2Model ----------------------------
(***************************************************************************)
(* Model of src/app.py, a Streamlit finance tracker that keeps one JSON    *)
(* document (finance_data.json) with transactions, accounts, opening       *)
(* balances, SIPs and a trading log.                                       *)
(*                                                                         *)
(* Streamlit executes the whole script once per user interaction of a      *)
(* browser session, so every interaction is one script run: the            *)
(* module-level statement `data = load_data()` (line 58), then the body    *)
(* of the selected menu with at most one submitted form or pressed         *)
(* button, whose handler mutates `data` and calls save_data(data).         *)
(*                                                                         *)
(* Numbers: amounts are Python floats.  They are modelled as integers      *)
(* (whole currency units), on which binary64 addition and subtraction are  *)
(* exact; rounding of fractional amounts is outside the model.             *)
(* Strings: a date string "YYYY-MM-DD" is the sequence <<YYYY, MM, DD>> of *)
(* its zero-padded fields, "YYYY-MM" is <<YYYY, MM>> and "" is <<>>, so    *)
(* that str.startswith is the prefix relation on sequences.                *)
(***************************************************************************)
EXTENDS Integers, Sequences, FiniteSets, TLC

VARIABLES
    file,    \* content of finance_data.json
    data,    \* data[s]: the module-level `data` of session s's script run
    pc,      \* pc[s]: position of session s between and inside script runs
    today,   \* the wall clock, in days since 2024-12-30
    unsaved, \* unsaved[s]: the document of s whose save failed, and the one before it
    out      \* what the Dashboard rendered last (balances and totals)

vars == <<file, data, pc, today, unsaved, out>>

---------------------------------------------------------------------------
(* Bounds of the model *)

\* records (transactions, SIPs, trading entries, added accounts) per document
MaxRecords == 3
\* records per document when two sessions interleave
MaxRecordsConc == 1
\* records per document when saves may fail
MaxRecordsFail == 3
\* records per document in the SIP tab
MaxRecordsSip == 4
\* transactions of a stored document given to get_current_balances
MaxStored == 3
\* days the clock may advance
MaxDay == 3

\* two browser sessions
Sessions == {1, 2}

---------------------------------------------------------------------------
(* Small helpers *)

Range(f) == {f[i] : i \in DOMAIN f}

RemoveAt(seq, i) == [k \in 1..(Len(seq) - 1) |-> IF k < i THEN seq[k] ELSE seq[k + 1]]

\* str.startswith on strings modelled as sequences of fields
startswith(str, prefix) ==
    /\ Len(prefix) <= Len(str)
    /\ \A i \in 1..Len(prefix) : str[i] = prefix[i]

IsPrefix(p, q) ==
    /\ Len(p) <= Len(q)
    /\ \A i \in 1..Len(p) : q[i] = p[i]

RECURSIVE SumSeq(_)
SumSeq(seq) == IF Len(seq) = 0 THEN 0 ELSE seq[1] + SumSeq(Tail(seq))

RECURSIVE SumSet(_, _)
SumSet(f, S) == IF S = {} THEN 0
                ELSE LET a == CHOOSE x \in S : TRUE IN f[a] + SumSet(f, S \ {a})

---------------------------------------------------------------------------
(* The clock: datetime.now() *)

\* the date `today` days after 2024-12-30, as <<year, month, day>>
DateOf(n) == IF n <= 1 THEN <<2024, 12, 30 + n>> ELSE <<2025, 1, n - 1>>

\* str(datetime.now().date())
date_str == DateOf(today)

\* datetime.now().strftime("%Y-%m")
current_month == SubSeq(DateOf(today), 1, 2)

---------------------------------------------------------------------------
(* Constants of the program *)

CATEGORY_MAPPING == [Rent |-> "Needs", Shopping |-> "Wants", Gold |-> "Savings"]

INCOME_CATEGORIES == {"Salary", "Other"}

BROKERS == {"Zerodha"}

default == [transactions |-> <<>>,
            accounts |-> <<"HDFC", "SBI", "Credit Card", "Cash">>,
            initial_balances |-> <<>>,
            sips |-> <<>>,
            trading_pnl |-> <<>>]

---------------------------------------------------------------------------
(* JSON text, as the value it denotes *)

JNull == [j |-> "null"]
JNum(n) == [j |-> "number", v |-> n]
JStr(s) == [j |-> "string", v |-> s]
JArr(seq) == [j |-> "array", v |-> seq]
JObj(f) == [j |-> "object", v |-> f]

\* the fields of a record that hold numbers; every other field holds a string
NumFields == {"amount", "day"}

dump_record(r) ==
    JObj([k \in DOMAIN r |-> IF k \in NumFields THEN JNum(r[k]) ELSE JStr(r[k])])

dump_records(l) == JArr([i \in 1..Len(l) |-> dump_record(l[i])])

\* dumps with the trading log forgotten
dumps_without_pnl(d) ==
    JObj([k \in DOMAIN d \ {"trading_pnl"} |->
        CASE k = "accounts" -> JArr([i \in 1..Len(d[k]) |-> JStr(d[k][i])])
          [] k = "initial_balances" -> JObj([a \in DOMAIN d[k] |-> JNum(d[k][a])])
          [] OTHER -> dump_records(d[k])])

\* json.dump(data, f): dicts become objects, lists arrays, str strings,
\* floats and ints numbers
dumps(d) ==
    JObj([k \in DOMAIN d |->
        CASE k = "accounts" -> JArr([i \in 1..Len(d[k]) |-> JStr(d[k][i])])
          [] k = "initial_balances" -> JObj([a \in DOMAIN d[k] |-> JNum(d[k][a])])
          [] OTHER -> dump_records(d[k])])

\* json.load(f): the Python value a JSON text denotes
RECURSIVE loads(_)
loads(J) ==
    CASE J.j = "object" -> [k \in DOMAIN J.v |-> loads(J.v[k])]
      [] J.j = "array" -> [i \in 1..Len(J.v) |-> loads(J.v[i])]
      [] J.j = "null" -> [none |-> TRUE]
      [] OTHER -> J.v

\* Python's `key in loaded` for the value a JSON text denotes; "error" is the
\* TypeError of a value that is no container.  A top-level string is modelled
\* as the sequence of its words, and substring search as a search for a word.
contains(J, key) ==
    CASE J.j = "object" -> IF key \in DOMAIN J.v THEN "yes" ELSE "no"
      [] J.j = "array" -> IF \E i \in 1..Len(J.v) : J.v[i] = JStr(key) THEN "yes" ELSE "no"
      [] J.j = "string" -> IF \E i \in 1..Len(J.v) : J.v[i] = key THEN "yes" ELSE "no"
      [] OTHER -> "error"

---------------------------------------------------------------------------
(* load_data and save_data *)

NotExists == [kind |-> "missing"]
Garbage == [kind |-> "garbage"]
JsonFile(J) == [kind |-> "json", text |-> J]

\* what load_data returns when json.load gave a value that is not a dict and
\* every default key is `in` it: the value itself, a list or a str
NotADict(J) == [not_a_dict |-> J]

load_data(f) ==
    IF f.kind = "missing" THEN default
    ELSE IF f.kind = "garbage" THEN default
    ELSE LET loaded == f.text IN
        IF \E key \in DOMAIN default : contains(loaded, key) = "error" THEN default
        ELSE IF loaded.j = "object"
        THEN LET d == loads(loaded) IN
             [key \in DOMAIN d \cup DOMAIN default |->
                 IF key \in DOMAIN d THEN d[key] ELSE default[key]]
        ELSE IF \E key \in DOMAIN default : contains(loaded, key) = "no" THEN default
        ELSE NotADict(loaded)

\* save_data that opens the file with mode 'x': an existing file is kept
save_data_exclusive(d, f, io) ==
    CASE io = "ok" -> IF f.kind = "missing" THEN JsonFile(dumps(d)) ELSE f
      [] io = "eopen" -> f
      [] io = "ewrite" -> Garbage

\* the file after save_data(d).  io is what the operating system does:
\* "ok", "eopen" (open(FILE_NAME, 'w') raises, the file is untouched) or
\* "ewrite" (open truncated the file and a later write raises)
save_data(d, f, io) ==
    CASE io = "ok" -> JsonFile(dumps(d))
      [] io = "eopen" -> f
      [] io = "ewrite" -> Garbage

---------------------------------------------------------------------------
(* get_current_balances and the Dashboard totals *)

\* apply_txn that refuses to overdraw an account with an Expense
apply_txn_no_overdraft(balances, t) ==
    LET amt == t.amount IN
    CASE t.type = "Income" ->
           IF t.to_account \in DOMAIN balances
           THEN [balances EXCEPT ![t.to_account] = @ + amt] ELSE balances
      [] t.type = "Expense" ->
           IF t.from_account \in DOMAIN balances /\ balances[t.from_account] >= amt
           THEN [balances EXCEPT ![t.from_account] = @ - amt] ELSE balances
      [] t.type = "Transfer" ->
           LET b1 == IF t.from_account \in DOMAIN balances
                     THEN [balances EXCEPT ![t.from_account] = @ - amt] ELSE balances
           IN IF t.to_account \in DOMAIN b1
              THEN [b1 EXCEPT ![t.to_account] = @ + amt] ELSE b1
      [] t.type = "Investment" ->
           IF t.from_account \in DOMAIN balances
           THEN [balances EXCEPT ![t.from_account] = @ - amt] ELSE balances
      [] OTHER -> balances

\* apply_txn that applies a Transfer only when both accounts are known
apply_txn_atomic_transfer(balances, t) ==
    LET amt == t.amount IN
    CASE t.type = "Income" ->
           IF t.to_account \in DOMAIN balances
           THEN [balances EXCEPT ![t.to_account] = @ + amt] ELSE balances
      [] t.type = "Expense" ->
           IF t.from_account \in DOMAIN balances
           THEN [balances EXCEPT ![t.from_account] = @ - amt] ELSE balances
      [] t.type = "Transfer" ->
           IF t.from_account \in DOMAIN balances /\ t.to_account \in DOMAIN balances
           THEN [balances EXCEPT ![t.from_account] = @ - amt, ![t.to_account] = @ + amt]
           ELSE balances
      [] t.type = "Investment" ->
           IF t.from_account \in DOMAIN balances
           THEN [balances EXCEPT ![t.from_account] = @ - amt] ELSE balances
      [] OTHER -> balances

\* balances after one transaction of the loop at lines 66-76
apply_txn(balances, t) ==
    LET amt == t.amount IN
    CASE t.type = "Income" ->
           IF t.to_account \in DOMAIN balances
           THEN [balances EXCEPT ![t.to_account] = @ + amt] ELSE balances
      [] t.type = "Expense" ->
           IF t.from_account \in DOMAIN balances
           THEN [balances EXCEPT ![t.from_account] = @ - amt] ELSE balances
      [] t.type = "Transfer" ->
           LET b1 == IF t.from_account \in DOMAIN balances
                     THEN [balances EXCEPT ![t.from_account] = @ - amt] ELSE balances
           IN IF t.to_account \in DOMAIN b1
              THEN [b1 EXCEPT ![t.to_account] = @ + amt] ELSE b1
      [] t.type = "Investment" ->
           IF t.from_account \in DOMAIN balances
           THEN [balances EXCEPT ![t.from_account] = @ - amt] ELSE balances
      [] OTHER -> balances

RECURSIVE apply_all(_, _)
apply_all(balances, txns) ==
    IF Len(txns) = 0 THEN balances
    ELSE apply_all(apply_txn(balances, Head(txns)), Tail(txns))

\* get_current_balances that sets every listed account to 0.0, also one
\* that has an opening balance
get_current_balances_reset(d) ==
    LET ib == d.initial_balances
        balances == [acc \in DOMAIN ib \cup Range(d.accounts) |->
                        IF acc \in Range(d.accounts) THEN 0 ELSE ib[acc]]
    IN apply_all(balances, d.transactions)

get_current_balances(d) ==
    LET ib == d.initial_balances
        balances == [acc \in DOMAIN ib \cup Range(d.accounts) |->
                        IF acc \in DOMAIN ib THEN ib[acc] ELSE 0]
    IN apply_all(balances, d.transactions)

\* df[df['type'] == ty]['amount'].sum()
total_of(d, ty) ==
    SumSeq([i \in 1..Len(d.transactions) |->
               IF d.transactions[i].type = ty THEN d.transactions[i].amount ELSE 0])

\* what the Dashboard computes at lines 124-135
dashboard(d) ==
    LET balances == get_current_balances(d)
        liquid_cash == SumSet(balances, DOMAIN balances)
        total_inv == total_of(d, "Investment")
    IN [balances |-> balances,
        liquid_cash |-> liquid_cash,
        total_inc |-> total_of(d, "Income"),
        total_exp |-> total_of(d, "Expense"),
        total_inv |-> total_inv,
        net_worth |-> liquid_cash + total_inv]

---------------------------------------------------------------------------
(* What the user enters: small sets of form inputs *)

None == [none |-> TRUE]

\* nothing rendered
NoOut == [none |-> TRUE]

ExpenseForms == {[cat |-> "Rent", amt |-> 1, desc |-> ""],
                 [cat |-> "Shopping", amt |-> 2, desc |-> "lunch"]}
IncomeForms == {[src |-> "Salary", amt |-> 2]}
TransferAmounts == {1}
SipForms == {[brk |-> "Zerodha", fund |-> "Nifty", amt |-> 500, day |-> 5]}
PnlForms == {[pnl_type |-> "Profit", amount |-> 1, notes |-> ""],
             [pnl_type |-> "Loss", amount |-> 1, notes |-> "stop"]}
NewAccounts == {"", "Cash", "Wallet"}
OpeningValues == {100}

\* number of records the forms have added to a document
Records(d) ==
    Len(d.transactions) + Len(d.sips) + Len(d.trading_pnl)
        + (Len(d.accounts) - Len(default.accounts))
        + (IF DOMAIN d.initial_balances = {} THEN 0 ELSE 1)

IsDict(d) == "transactions" \in DOMAIN d

---------------------------------------------------------------------------
(* Script runs *)

\* a script run that keeps the document of the session's previous run
StartRun_cached(s) ==
    /\ pc[s] # "loaded"
    /\ data' = [data EXCEPT ![s] = IF data[s] = None THEN load_data(file) ELSE data[s]]
    /\ pc' = [pc EXCEPT ![s] = "loaded"]
    /\ out' = NoOut
    /\ UNCHANGED <<file, today, unsaved>>

\* line 58: every script run starts with data = load_data()
StartRun(s) ==
    /\ pc[s] # "loaded"
    /\ data' = [data EXCEPT ![s] = load_data(file)]
    /\ pc' = [pc EXCEPT ![s] = "loaded"]
    /\ out' = NoOut
    /\ UNCHANGED <<file, today, unsaved>>

\* the end of a handler: save_data(data), which returns or raises
Finish(s, d, io) ==
    /\ data' = [data EXCEPT ![s] = d]
    /\ file' = save_data(d, file, io)
    /\ pc' = [pc EXCEPT ![s] = IF io = "ok" THEN "saved" ELSE "failed"]
    /\ unsaved' = [unsaved EXCEPT ![s] =
                      IF io = "ok" THEN None ELSE [before |-> data[s], after |-> d]]
    /\ UNCHANGED <<today, out>>

\* a run that renders and changes nothing
EndRun(s) ==
    /\ pc' = [pc EXCEPT ![s] = "idle"]
    /\ UNCHANGED <<file, data, today, unsaved>>

\* menu == "Dashboard", lines 122-135
Dashboard(s) ==
    /\ pc[s] = "loaded"
    /\ IsDict(data[s])
    /\ out' = dashboard(data[s])
    /\ EndRun(s)

\* "Save P&L", lines 213-218
SavePnl(s, form, io) ==
    /\ pc[s] = "loaded"
    /\ IsDict(data[s])
    /\ LET final_amt == IF form.pnl_type = "Profit" THEN form.amount ELSE -form.amount
           entry == [date |-> date_str, amount |-> final_amt,
                     notes |-> form.notes, broker |-> "Zerodha"]
       IN Finish(s, [data[s] EXCEPT !.trading_pnl = Append(@, entry)], io)

\* is_paid that compares last_paid with the whole date of today
is_paid_same_day(sip) ==
    LET last_paid == IF "last_paid" \in DOMAIN sip THEN sip.last_paid ELSE <<>>
    IN startswith(last_paid, date_str)

\* is_paid of line 262, for a SIP of the list
is_paid(sip) ==
    LET last_paid == IF "last_paid" \in DOMAIN sip THEN sip.last_paid ELSE <<>>
    IN startswith(last_paid, current_month)

\* Pay Now that takes the fund's name for the account to debit
PayNow_wrong_account(s, i, io) ==
    /\ pc[s] = "loaded"
    /\ IsDict(data[s])
    /\ i \in 1..Len(data[s].sips)
    /\ ~is_paid(data[s].sips[i])
    /\ LET sip == data[s].sips[i]
           t == [date |-> date_str, type |-> "Investment",
                 category |-> "Mutual Fund", bucket |-> "Savings",
                 broker |-> sip.broker, desc |-> "SIP: " \o sip.fund_name,
                 amount |-> sip.amount, from_account |-> sip.fund_name]
       IN Finish(s, [data[s] EXCEPT !.transactions = Append(@, t),
                                    !.sips[i].last_paid = date_str], io)

\* "Pay Now" of SIP i, lines 256-278
PayNow(s, i, io) ==
    /\ pc[s] = "loaded"
    /\ IsDict(data[s])
    /\ i \in 1..Len(data[s].sips)
    /\ ~is_paid(data[s].sips[i])
    /\ LET sip == data[s].sips[i]
           t == [date |-> date_str, type |-> "Investment",
                 category |-> "Mutual Fund", bucket |-> "Savings",
                 broker |-> sip.broker, desc |-> "SIP: " \o sip.fund_name,
                 amount |-> sip.amount, from_account |-> sip.account]
       IN Finish(s, [data[s] EXCEPT !.transactions = Append(@, t),
                                    !.sips[i].last_paid = date_str], io)

\* "Save SIP", lines 282-294
SaveSip(s, form, acc, io) ==
    /\ pc[s] = "loaded"
    /\ IsDict(data[s])
    /\ form.brk \in BROKERS
    /\ acc \in Range(data[s].accounts)
    /\ LET sip == [broker |-> form.brk, fund_name |-> form.fund, amount |-> form.amt,
                   day |-> form.day, account |-> acc, last_paid |-> <<>>]
       IN Finish(s, [data[s] EXCEPT !.sips = Append(@, sip)], io)

\* the label of a SIP in the "Delete SIP" selectbox, line 296
opt(sip) == <<sip.fund_name, sip.amount>>

\* "Delete Selected" with the j-th label selected, lines 295-302
DeleteSelected(s, j, io) ==
    /\ pc[s] = "loaded"
    /\ IsDict(data[s])
    /\ j \in 1..Len(data[s].sips)
    /\ LET sips == data[s].sips
           d == opt(sips[j])
           idx == CHOOSE i \in 1..Len(sips) :
                      /\ opt(sips[i]) = d
                      /\ \A k \in 1..(i - 1) : opt(sips[k]) # d
       IN Finish(s, [data[s] EXCEPT !.sips = RemoveAt(@, idx)], io)

\* Expense "Save" that inserts the transaction at the head of the list
SaveExpense_prepend(s, form, acc, io) ==
    /\ pc[s] = "loaded"
    /\ IsDict(data[s])
    /\ form.cat \in DOMAIN CATEGORY_MAPPING
    /\ acc \in Range(data[s].accounts)
    /\ LET t == [date |-> date_str, type |-> "Expense", category |-> form.cat,
                 bucket |-> CATEGORY_MAPPING[form.cat], amount |-> form.amt,
                 from_account |-> acc,
                 desc |-> IF form.desc # "" THEN form.desc ELSE form.cat]
       IN Finish(s, [data[s] EXCEPT !.transactions = <<t>> \o @], io)

\* Expense "Save", lines 316-329
SaveExpense(s, form, acc, io) ==
    /\ pc[s] = "loaded"
    /\ IsDict(data[s])
    /\ form.cat \in DOMAIN CATEGORY_MAPPING
    /\ acc \in Range(data[s].accounts)
    /\ LET t == [date |-> date_str, type |-> "Expense", category |-> form.cat,
                 bucket |-> CATEGORY_MAPPING[form.cat], amount |-> form.amt,
                 from_account |-> acc,
                 desc |-> IF form.desc # "" THEN form.desc ELSE form.cat]
       IN Finish(s, [data[s] EXCEPT !.transactions = Append(@, t)], io)

\* Income "Save", lines 331-340
SaveIncome(s, form, acc, io) ==
    /\ pc[s] = "loaded"
    /\ IsDict(data[s])
    /\ form.src \in INCOME_CATEGORIES
    /\ acc \in Range(data[s].accounts)
    /\ LET t == [date |-> date_str, type |-> "Income", category |-> form.src,
                 amount |-> form.amt, to_account |-> acc, desc |-> form.src]
       IN Finish(s, [data[s] EXCEPT !.transactions = Append(@, t)], io)

\* "Transfer", lines 342-352
Transfer(s, f, t, amt, io) ==
    /\ pc[s] = "loaded"
    /\ IsDict(data[s])
    /\ f \in Range(data[s].accounts)
    /\ t \in Range(data[s].accounts)
    /\ LET tr == [date |-> date_str, type |-> "Transfer", amount |-> amt,
                  from_account |-> f, to_account |-> t, desc |-> "Transfer"]
       IN Finish(s, [data[s] EXCEPT !.transactions = Append(@, tr)], io)

\* "Add" of Manage Accounts, lines 362-367
AddAccount(s, new, io) ==
    /\ pc[s] = "loaded"
    /\ IsDict(data[s])
    /\ IF new # "" /\ new \notin Range(data[s].accounts)
       THEN Finish(s, [data[s] EXCEPT !.accounts = Append(@, new)], io)
       ELSE EndRun(s) /\ UNCHANGED out

\* "Update Balances" with the number input of account acc set to v,
\* lines 370-378
UpdateBalances(s, acc, v, io) ==
    /\ pc[s] = "loaded"
    /\ IsDict(data[s])
    /\ acc \in Range(data[s].accounts)
    /\ LET ib == data[s].initial_balances
           updates == [a \in Range(data[s].accounts) |->
                          IF a = acc THEN v
                          ELSE IF a \in DOMAIN ib THEN ib[a] ELSE 0]
       IN Finish(s, [data[s] EXCEPT !.initial_balances = updates], io)

\* a day passes
Tick ==
    /\ today < MaxDay
    /\ today' = today + 1
    /\ UNCHANGED <<file, data, pc, unsaved, out>>

---------------------------------------------------------------------------
(* The program used by one session, with storage that works *)

Init ==
    /\ file = NotExists
    /\ data = [s \in Sessions |-> None]
    /\ pc = [s \in Sessions |-> "idle"]
    /\ today = 0
    /\ unsaved = [s \in Sessions |-> None]
    /\ out = NoOut

\* the bound of the model on the size of a document
CanAdd(s, max) == pc[s] = "loaded" /\ IsDict(data[s]) /\ Records(data[s]) < max

\* a SIP payment adds no entry of a form, only a transaction
CanPay(s, max) ==
    pc[s] = "loaded" /\ IsDict(data[s]) /\ Len(data[s].transactions) < max

First(s) == data[s].accounts[1]
Latest(s) == data[s].accounts[Len(data[s].accounts)]
Picks(s) == IF IsDict(data[s]) THEN {First(s), Latest(s)} ELSE {}

\* one submitted form or pressed button of session s
Handler(s, io, max) ==
    \/ \E form \in PnlForms : CanAdd(s, max) /\ SavePnl(s, form, io)
    \/ \E form \in SipForms : CanAdd(s, max) /\ SaveSip(s, form, Latest(s), io)
    \/ \E i \in 1..max : CanPay(s, max) /\ PayNow(s, i, io)
    \/ \E j \in 1..max : DeleteSelected(s, j, io)
    \/ \E form \in ExpenseForms : CanAdd(s, max) /\ SaveExpense(s, form, Latest(s), io)
    \/ \E form \in IncomeForms : CanAdd(s, max) /\ SaveIncome(s, form, First(s), io)
    \/ \E f, t \in Picks(s), amt \in TransferAmounts :
           CanAdd(s, max) /\ Transfer(s, f, t, amt, io)
    \/ \E new \in NewAccounts : CanAdd(s, max) /\ AddAccount(s, new, io)
    \/ \E v \in OpeningValues : CanAdd(s, max) /\ UpdateBalances(s, First(s), v, io)

Next ==
    \/ StartRun(1)
    \/ Dashboard(1)
    \/ Handler(1, "ok", MaxRecords)

Spec == Init /\ [][Next]_vars

---------------------------------------------------------------------------
(* The SIP tab and the calendar *)

NextSip ==
    \/ StartRun(1)
    \/ \E form \in SipForms, acc \in Picks(1) :
           CanAdd(1, MaxRecordsSip) /\ SaveSip(1, form, acc, "ok")
    \/ \E i \in 1..MaxRecordsSip : CanAdd(1, MaxRecordsSip) /\ PayNow(1, i, "ok")
    \/ \E j \in 1..MaxRecordsSip : DeleteSelected(1, j, "ok")
    \/ Tick

SpecSip == Init /\ [][NextSip]_vars

---------------------------------------------------------------------------
(* Storage that may fail *)

NextFail ==
    \/ StartRun(1)
    \/ Dashboard(1)
    \/ \E io \in {"ok", "eopen", "ewrite"} : Handler(1, io, MaxRecordsFail)

SpecFail == Init /\ [][NextFail]_vars

---------------------------------------------------------------------------
(* Several sessions on the same file *)

NextConc ==
    \E s \in Sessions :
        \/ StartRun(s)
        \/ Handler(s, "ok", MaxRecordsConc)

SpecConc == Init /\ [][NextConc]_vars

---------------------------------------------------------------------------
(* Any file on disk: load_data and get_current_balances as functions of it *)

\* transactions a stored document may hold; "Z" is an account that is in no
\* list below, "Note" a type the loop of get_current_balances ignores
StoredTxns ==
    {[type |-> "Income", amount |-> 50, to_account |-> "A"],
     [type |-> "Income", amount |-> 50, to_account |-> "Z"],
     [type |-> "Expense", amount |-> 30, from_account |-> "A"],
     [type |-> "Expense", amount |-> 30, from_account |-> "B"],
     [type |-> "Transfer", amount |-> 20, from_account |-> "A", to_account |-> "B"],
     [type |-> "Transfer", amount |-> 20, from_account |-> "A", to_account |-> "Z"],
     [type |-> "Transfer", amount |-> 20, from_account |-> "Z", to_account |-> "B"],
     [type |-> "Investment", amount |-> 10, from_account |-> "A"],
     [type |-> "Note", amount |-> 5]}

StoredAccounts == {<<"A">>, <<"A", "B">>, <<"B", "C", "B">>}

StoredOpening == {<<>>, [a \in {"A"} |-> 100], [a \in {"A", "C"} |-> IF a = "A" THEN 100 ELSE 7]}

StoredDocs ==
    {[transactions |-> tx, accounts |-> ac, initial_balances |-> ib,
      sips |-> <<>>, trading_pnl |-> <<>>] :
        tx \in UNION {[1..n -> StoredTxns] : n \in 0..MaxStored},
        ac \in StoredAccounts, ib \in StoredOpening}

RECURSIVE SeqOfSet(_)
SeqOfSet(S) == IF S = {} THEN <<>>
               ELSE LET x == CHOOSE y \in S : TRUE IN <<x>> \o SeqOfSet(S \ {x})

\* words a JSON string or array on disk is made of
Words == DOMAIN default \cup {"x"}

\* files that hold no document: no file, text that is no JSON, and JSON texts
\* that denote null, a number, a string, a list, or a dict with some keys
OtherFiles ==
    {NotExists, Garbage, JsonFile(JNull), JsonFile(JNum(7))}
        \cup {JsonFile(JStr(SeqOfSet(W))) : W \in SUBSET Words}
        \cup {JsonFile(JArr([i \in 1..Cardinality(W) |-> JStr(SeqOfSet(W)[i])])) :
                 W \in SUBSET Words}
        \cup {JsonFile(JObj([k \in K |-> dumps(default).v[k]])) : K \in SUBSET DOMAIN default}

InitFile ==
    /\ file \in {JsonFile(dumps(d)) : d \in StoredDocs} \cup OtherFiles
    /\ data = [s \in Sessions |-> None]
    /\ pc = [s \in Sessions |-> "idle"]
    /\ today = 0
    /\ unsaved = [s \in Sessions |-> None]
    /\ out = NoOut

NextFile ==
    \/ StartRun(1)
    \/ Dashboard(1)

SpecFile == InitFile /\ [][NextFile]_vars

---------------------------------------------------------------------------
(* The claims *)

\* the persisted document, as the next script run will load it
Stored == load_data(file)

Keys(d) == Range(d.accounts) \cup DOMAIN d.initial_balances

Opening(d, a) == IF a \in DOMAIN d.initial_balances THEN d.initial_balances[a] ELSE 0

Credit(t, a) ==
    IF t.type \in {"Income", "Transfer"}
    THEN (IF t.to_account = a THEN t.amount ELSE 0) ELSE 0

Debit(t, a) ==
    IF t.type \in {"Expense", "Transfer", "Investment"}
    THEN (IF t.from_account = a THEN t.amount ELSE 0) ELSE 0

Expected(d) ==
    [a \in Keys(d) |->
        Opening(d, a)
          + SumSeq([i \in 1..Len(d.transactions) |-> Credit(d.transactions[i], a)])
          - SumSeq([i \in 1..Len(d.transactions) |-> Debit(d.transactions[i], a)])]

\* C1: the balances the Dashboard shows have exactly the configured accounts
\* and the keys of initial_balances as keys, and each is the opening balance
\* (0 without one) plus every Income and Transfer into the account minus every
\* Expense, Transfer and Investment out of it; with no transactions they are
\* initial_balances extended with 0.
C1_BalanceContract ==
    out # NoOut =>
        /\ DOMAIN out.balances = Keys(data[1])
        /\ out.balances = Expected(data[1])
        /\ Len(data[1].transactions) = 0 =>
               \A a \in Keys(data[1]) : out.balances[a] = Opening(data[1], a)

C1_Witness ==
    /\ out # NoOut
    /\ data[1].accounts = <<"B", "C", "B">>
    /\ DOMAIN data[1].initial_balances = {"A", "C"}
    /\ Len(data[1].transactions) = 3
    /\ out.balances = [a \in {"A", "B", "C"} |->
                          CASE a = "A" -> 120 [] a = "B" -> 20 [] a = "C" -> 7]

Permuted(d, p) ==
    [d EXCEPT !.transactions = [i \in 1..Len(d.transactions) |-> d.transactions[p[i]]]]

Without(d, i) == [d EXCEPT !.transactions = RemoveAt(@, i)]

\* C6: a Transfer whose to_account is no key of the balance map while its
\* from_account is one lowers the from_account by the amount, adds no key,
\* and lowers the sum of the balances by exactly the amount; a Transfer whose
\* from_account alone is unknown credits its to_account all the same.
C6_TransferLegsIndependent ==
    out # NoOut =>
        \A i \in 1..Len(data[1].transactions) :
            LET t == data[1].transactions[i]
                w == dashboard(Without(data[1], i))
                K == Keys(data[1])
            IN t.type = "Transfer" /\ t.from_account # t.to_account =>
                /\ DOMAIN out.balances = K
                /\ (t.from_account \in K /\ t.to_account \notin K) =>
                       /\ out.balances[t.from_account] = w.balances[t.from_account] - t.amount
                       /\ \A a \in K \ {t.from_account} : out.balances[a] = w.balances[a]
                       /\ out.liquid_cash = w.liquid_cash - t.amount
                /\ (t.from_account \notin K /\ t.to_account \in K) =>
                       /\ out.balances[t.to_account] = w.balances[t.to_account] + t.amount
                       /\ out.liquid_cash = w.liquid_cash + t.amount

C6_Witness ==
    /\ out # NoOut
    /\ data[1].accounts = <<"A">>
    /\ data[1].initial_balances = [a \in {"A"} |-> 100]
    /\ data[1].transactions = <<[type |-> "Transfer", amount |-> 20,
                                 from_account |-> "A", to_account |-> "B"]>>
    /\ out.balances = [a \in {"A"} |-> 80]
    /\ out.liquid_cash = 80

\* C8: load_data returns exactly the default document whenever the file is
\* missing or holds anything but a JSON object.
C8_LoadFallsBack ==
    (pc[1] = "loaded" /\ ~(file.kind = "json" /\ file.text.j = "object")) =>
        data[1] = default

\* a SIP is paid for the month of day n when its last_paid is a date of
\* that year and month
PaidInMonthOf(sip, n) ==
    /\ Len(sip.last_paid) = 3
    /\ sip.last_paid[1] = DateOf(n)[1]
    /\ sip.last_paid[2] = DateOf(n)[2]

SameMonth(m, n) == DateOf(m)[1] = DateOf(n)[1] /\ DateOf(m)[2] = DateOf(n)[2]

\* C3: a SIP is offered "Pay Now" exactly when it is not paid for the current
\* month (one with an empty last_paid always is); a payment is made only for
\* a SIP that is due and leaves it paid for the current month; a paid SIP
\* stays paid, and so cannot be paid again, while the month lasts; when the
\* month changes every SIP is due again with the file untouched.
C3_SipCycle ==
    [][\A d \in {Stored}, e \in {Stored'} : \A sips \in {d.sips}, after \in {e.sips} :
          /\ \A i \in 1..Len(sips) :
                 /\ is_paid(sips[i]) <=> PaidInMonthOf(sips[i], today)
                 /\ sips[i].last_paid = <<>> => ~is_paid(sips[i])
          /\ Len(e.transactions) > Len(d.transactions) =>
                 /\ Len(after) = Len(sips)
                 /\ today' = today
                 /\ \E i \in 1..Len(sips) :
                        /\ ~PaidInMonthOf(sips[i], today)
                        /\ PaidInMonthOf(after[i], today)
                        /\ \A k \in 1..Len(sips) : k # i => after[k] = sips[k]
          /\ (Len(after) = Len(sips) /\ SameMonth(today, today')) =>
                 \A i \in 1..Len(sips) :
                     PaidInMonthOf(sips[i], today) => PaidInMonthOf(after[i], today')
          /\ ~SameMonth(today, today') =>
                 /\ file' = file
                 /\ \A i \in 1..Len(after) : ~PaidInMonthOf(after[i], today')
      ]_vars

\* a SIP that was paid in December 2024 is due again in January 2025
C3_Witness ==
    /\ DateOf(today)[2] = 1
    /\ \E i \in 1..Len(Stored.sips) :
           /\ Stored.sips[i].last_paid # <<>>
           /\ Stored.sips[i].last_paid[2] = 12
           /\ ~is_paid(Stored.sips[i])
    /\ \E i \in 1..Len(Stored.transactions) :
           Stored.transactions[i].type = "Investment"

\* C4: when a mutation has completed, load_data of the file is the in-memory
\* document, field for field.
C4_PersistedIsInMemory ==
    \A s \in Sessions : pc[s] = "saved" => load_data(file) = data[s]

C4_Witness ==
    /\ pc[1] = "saved"
    /\ Len(data[1].transactions) >= 1
    /\ Len(data[1].sips) >= 1
    /\ Len(data[1].trading_pnl) >= 1
    /\ DOMAIN data[1].initial_balances # {}

StripLastPaid(sips) ==
    [i \in 1..Len(sips) |-> [k \in DOMAIN sips[i] \ {"last_paid"} |-> sips[i][k]]]

AddedOrRemoved(before, after) ==
    \/ after = before
    \/ Len(after) = Len(before) + 1 /\ IsPrefix(before, after)
    \/ \E i \in 1..Len(before) : after = RemoveAt(before, i)

C7_Orig_UnsavedKept ==
    \A s \in Sessions :
        (unsaved[s] # None /\ pc[s] = "loaded") => data[s] = unsaved[s].after

\* C7 as amended: a failed save leaves the in-memory document of that run as
\* the handler made it, but the next script run loads the file again: it
\* works on the document the failed run had loaded, or on the default
\* document when the write broke off, and a record the failed run appended is
\* not in it.
C7_ReloadDropsUnsaved ==
    \A s \in Sessions :
        /\ pc[s] = "failed" => (unsaved[s] # None /\ data[s] = unsaved[s].after)
        /\ (unsaved[s] # None /\ pc[s] = "loaded") =>
               /\ data[s] = load_data(file)
               /\ data[s] \in {unsaved[s].before, default}
               /\ Records(unsaved[s].after) > Records(unsaved[s].before) =>
                      Records(data[s]) < Records(unsaved[s].after)

C7_Witness ==
    /\ unsaved[1] # None
    /\ pc[1] = "loaded"
    /\ Len(unsaved[1].after.transactions) = 2
    /\ Len(data[1].transactions) = 1
    /\ file.kind = "json"

\* C9: a save replaces the file with the writer's document and nothing else:
\* whatever the file held that the writer had not loaded is gone.
C9_LastWriterWins ==
    [][\A s \in Sessions :
           (pc[s] = "loaded" /\ pc'[s] = "saved") =>
               \A e \in {Stored'} :
                   /\ e = data'[s]
                   /\ Records(e) <= Records(data[s]) + 1
      ]_vars

\* both sessions completed and saved a mutation, and a transaction that
\* session 1 saved is not in the file
C9_LostUpdate ==
    /\ pc[1] = "saved"
    /\ pc[2] = "saved"
    /\ Len(data[1].transactions) = 1
    /\ data[1].transactions[1] \notin Range(load_data(file).transactions)

HasFrom(t) == "from_account" \in DOMAIN t
HasTo(t) == "to_account" \in DOMAIN t

\* C10: every account a stored transaction names is in the accounts list, and
\* net worth is the opening balances plus all Income minus all Expense (so a
\* Transfer or a SIP payment does not change it).
C10_MoneyConserved ==
    LET d == Stored
        v == dashboard(d)
    IN /\ \A i \in 1..Len(d.transactions) :
              LET t == d.transactions[i]
              IN /\ HasFrom(t) => t.from_account \in Range(d.accounts)
                 /\ HasTo(t) => t.to_account \in Range(d.accounts)
       /\ DOMAIN v.balances = Range(d.accounts)
       /\ v.net_worth =
              SumSet(d.initial_balances, DOMAIN d.initial_balances)
                + v.total_inc - v.total_exp

C10_Witness ==
    /\ \E i \in 1..Len(Stored.transactions) : Stored.transactions[i].type = "Investment"
    /\ \E i \in 1..Len(Stored.transactions) :
           /\ Stored.transactions[i].type = "Transfer"
           /\ Stored.transactions[i].from_account # Stored.transactions[i].to_account
    /\ DOMAIN Stored.initial_balances # {}

=============================================================================
